---- MODULE Spec2Model ----
(***************************************************************************)
(* CHIP-8 interpreter core (src/src/rust/src/lib.rs): the Chip8 struct,    *)
(* its opcode handlers, execute_instructions, tick and reset.              *)
(*                                                                         *)
(* The struct is one record, `chip8`; every Rust method is an operator     *)
(* from a machine record to a machine record, composed as in the source.   *)
(* A Rust panic is the field `panic` of the record: the handler stops at   *)
(* the panicking statement, the writes made before it stay, and no entry   *)
(* point runs afterwards.  Arithmetic on u8/u16 panics on overflow when    *)
(* the build has overflow checks (debug profile) and wraps otherwise       *)
(* (release profile): `overflow_checks` is fixed by the build.             *)
(*                                                                         *)
(* Spec runs programs from a machine built by new().  SpecOp applies       *)
(* handle_opcode along a short sequence of opcodes (`script`) to a machine *)
(* drawn from a bounded set of machine states (`start`); `done` is the     *)
(* part of the sequence already executed.                                  *)
(***************************************************************************)
EXTENDS Integers, Sequences, FiniteSets, TLC

VARIABLES chip8, overflow_checks, last, shadow, nops, nresets,
          start, script, done, host

vars == <<chip8, overflow_checks, last, shadow, nops, nresets,
          start, script, done, host>>

----------------------------------------------------------------------------
(* Program constants (lib.rs:12-19)                                        *)
FRAME_BUF_WIDTH == 64
FRAME_BUF_HEIGHT == 32
MEM_MAX == 4096
REG_MAX == 16
FRAME_BUF_MAX == FRAME_BUF_HEIGHT * FRAME_BUF_WIDTH
NUM_OF_KEYS == 16
START_OF_FONT == 80
PROGRAM_START == 512
U8_MOD == 256
U16_MOD == 65536

(* Bounds of the model                                                     *)
MaxOps == 1
MaxResets == 1
MaxStack == 17
MaxKeyEvents == 1

----------------------------------------------------------------------------
(* Opcode helper functions (lib.rs:28-42)                                  *)
get_x(opcode) == (opcode \div 256) % 16

get_y(opcode) == (opcode \div 16) % 16

get_kk(opcode) == opcode % 256

get_nnn(opcode) == opcode % 4096

(* Bitwise operators of Rust on n-bit unsigned values                      *)
RECURSIVE BitAnd(_, _, _)
BitAnd(a, b, n) ==
  IF n = 0 THEN 0
  ELSE (a % 2) * (b % 2) + 2 * BitAnd(a \div 2, b \div 2, n - 1)

RECURSIVE BitOr(_, _, _)
BitOr(a, b, n) ==
  IF n = 0 THEN 0
  ELSE (IF (a % 2) + (b % 2) > 0 THEN 1 ELSE 0)
       + 2 * BitOr(a \div 2, b \div 2, n - 1)

RECURSIVE BitXor(_, _, _)
BitXor(a, b, n) ==
  IF n = 0 THEN 0
  ELSE ((a + b) % 2) + 2 * BitXor(a \div 2, b \div 2, n - 1)

(* The panic macro: the call stops, the process state is poisoned          *)
Panic(c, kind) == [c EXCEPT !.panic = kind]

unhandled_opcode_panic(c, opcode) == Panic(c, "unhandled_opcode")

update_canvas(c) == c

wait_for_keypress(c, x) == c

----------------------------------------------------------------------------
(* Chip8::new (lib.rs:90-128)                                              *)
font_data ==
  << 240, 144, 144, 144, 240,
     32, 96, 32, 32, 112,
     240, 16, 240, 128, 240,
     240, 16, 240, 16, 240,
     144, 144, 240, 16, 16,
     240, 128, 240, 16, 240,
     240, 128, 240, 144, 240,
     240, 16, 32, 64, 64,
     240, 144, 240, 144, 240,
     240, 144, 240, 16, 240 >>

new ==
  [ memory |-> [a \in 0..(MEM_MAX - 1) |->
                  IF a >= START_OF_FONT /\ a < START_OF_FONT + Len(font_data)
                  THEN font_data[a - START_OF_FONT + 1] ELSE 0],
    reg |-> [i \in 0..(REG_MAX - 1) |-> 0],
    index_reg |-> 0,
    stack |-> << >>,
    frame_buffer |-> [i \in 0..(FRAME_BUF_MAX - 1) |-> 0],
    program_counter |-> PROGRAM_START,
    keys |-> [i \in 0..(NUM_OF_KEYS - 1) |-> 0],
    delay_timer |-> 0,
    sound_timer |-> 0,
    panic |-> "" ]

(* Chip8::reset (lib.rs:130-139)                                           *)
reset(c) ==
  [c EXCEPT !.memory = [a \in 0..(MEM_MAX - 1) |->
                          IF a >= PROGRAM_START THEN 0 ELSE c.memory[a]],
            !.stack = << >>,
            !.frame_buffer = [i \in 0..(FRAME_BUF_MAX - 1) |-> 0],
            !.index_reg = 0,
            !.program_counter = PROGRAM_START,
            !.keys = [i \in 0..(NUM_OF_KEYS - 1) |-> 0],
            !.delay_timer = 0,
            !.sound_timer = 0]

(* xor_pixel setting the pixel (OR) instead of toggling it                 *)
xor_pixel_or(fb, x, y, val) ==
  LET wrapped_x == x % FRAME_BUF_WIDTH
      wrapped_y == y % FRAME_BUF_HEIGHT
      index == (wrapped_y * FRAME_BUF_WIDTH) + wrapped_x
      start_val == fb[index]
      new_val == BitOr(start_val, val, 8)
  IN [fb |-> [fb EXCEPT ![index] = new_val],
      collision |-> (start_val = 1 /\ val = 1)]

(* xor_pixel storing the sprite bit (=) instead of toggling (^=)           *)
xor_pixel_assign(fb, x, y, val) ==
  LET wrapped_x == x % FRAME_BUF_WIDTH
      wrapped_y == y % FRAME_BUF_HEIGHT
      index == (wrapped_y * FRAME_BUF_WIDTH) + wrapped_x
      start_val == fb[index]
      new_val == val
  IN [fb |-> [fb EXCEPT ![index] = new_val],
      collision |-> (start_val = 1 /\ new_val = 0)]

(* Chip8::xor_pixel (lib.rs:149-161): the new frame buffer and the         *)
(* collision flag                                                          *)
xor_pixel(fb, x, y, val) ==
  LET wrapped_x == x % FRAME_BUF_WIDTH
      wrapped_y == y % FRAME_BUF_HEIGHT
      index == (wrapped_y * FRAME_BUF_WIDTH) + wrapped_x
      start_val == fb[index]
      new_val == BitXor(start_val, val, 8)
  IN [fb |-> [fb EXCEPT ![index] = new_val],
      collision |-> (start_val = 1 /\ new_val = 0)]

----------------------------------------------------------------------------
(* sys_addr reading the top of the stack without popping it               *)
sys_addr_peek(c, opcode) ==
  IF opcode = 224
  THEN update_canvas([c EXCEPT !.frame_buffer =
                        [i \in 0..(FRAME_BUF_MAX - 1) |-> 0]])
  ELSE IF opcode = 238
  THEN IF Len(c.stack) = 0
       THEN Panic(c, "unwrap_none")
       ELSE [c EXCEPT !.program_counter = c.stack[Len(c.stack)]]
  ELSE unhandled_opcode_panic(c, opcode)

(* sys_addr clearing all cells of the frame buffer but the last            *)
sys_addr_clear_short(c, opcode) ==
  IF opcode = 224
  THEN update_canvas([c EXCEPT !.frame_buffer =
                        [i \in 0..(FRAME_BUF_MAX - 1) |->
                           IF i < FRAME_BUF_MAX - 1 THEN 0
                           ELSE c.frame_buffer[i]]])
  ELSE IF opcode = 238
  THEN IF Len(c.stack) = 0
       THEN Panic(c, "unwrap_none")
       ELSE [c EXCEPT !.program_counter = c.stack[Len(c.stack)],
                      !.stack = SubSeq(c.stack, 1, Len(c.stack) - 1)]
  ELSE unhandled_opcode_panic(c, opcode)

(* 0x0000  Chip8::sys_addr (lib.rs:204-213)                                *)
sys_addr(c, opcode) ==
  IF opcode = 224
  THEN update_canvas([c EXCEPT !.frame_buffer =
                        [i \in 0..(FRAME_BUF_MAX - 1) |-> 0]])
  ELSE IF opcode = 238
  THEN IF Len(c.stack) = 0
       THEN Panic(c, "unwrap_none")
       ELSE [c EXCEPT !.program_counter = c.stack[Len(c.stack)],
                      !.stack = SubSeq(c.stack, 1, Len(c.stack) - 1)]
  ELSE unhandled_opcode_panic(c, opcode)

(* 0x1000  Chip8::jp_addr (lib.rs:215-217)                                 *)
jp_addr(c, opcode) == [c EXCEPT !.program_counter = get_nnn(opcode)]

(* 0x2000  Chip8::call_addr (lib.rs:219-222)                               *)
call_addr(c, opcode) ==
  [c EXCEPT !.stack = Append(c.stack, c.program_counter),
            !.program_counter = get_nnn(opcode)]

(* 0x3000  Chip8::skip_if_equal (lib.rs:224-228)                           *)
skip_if_equal(c, opcode) ==
  IF c.reg[get_x(opcode)] = get_kk(opcode)
  THEN [c EXCEPT !.program_counter = c.program_counter + 2]
  ELSE c

(* skip_if_not_equal with the comparison of skip_if_equal                  *)
skip_if_not_equal_eq(c, opcode) ==
  IF c.reg[get_x(opcode)] = get_kk(opcode)
  THEN [c EXCEPT !.program_counter = c.program_counter + 2]
  ELSE c

(* 0x4000  Chip8::skip_if_not_equal (lib.rs:230-234)                       *)
skip_if_not_equal(c, opcode) ==
  IF c.reg[get_x(opcode)] # get_kk(opcode)
  THEN [c EXCEPT !.program_counter = c.program_counter + 2]
  ELSE c

(* 0x5000  Chip8::skip_if_reg_equal (lib.rs:236-240)                       *)
skip_if_reg_equal(c, opcode) ==
  IF c.reg[get_x(opcode)] = c.reg[get_y(opcode)]
  THEN [c EXCEPT !.program_counter = c.program_counter + 2]
  ELSE c

(* 0x9000  Chip8::skip_if_reg_not_equal (lib.rs:242-246)                   *)
skip_if_reg_not_equal(c, opcode) ==
  IF c.reg[get_x(opcode)] # c.reg[get_y(opcode)]
  THEN [c EXCEPT !.program_counter = c.program_counter + 2]
  ELSE c

(* 0x6000  Chip8::set_reg (lib.rs:248-250)                                 *)
set_reg(c, opcode) == [c EXCEPT !.reg[get_x(opcode)] = get_kk(opcode)]

(* add_reg reporting the carry in the flag register                        *)
add_reg_carry(c, opcode) ==
  LET x == get_x(opcode)
      r1 == [c.reg EXCEPT ![x] = (c.reg[x] + get_kk(opcode)) % U8_MOD]
  IN [c EXCEPT !.reg = [r1 EXCEPT ![15] =
                          IF c.reg[x] + get_kk(opcode) >= U8_MOD
                          THEN 1 ELSE 0]]

(* 0x7000  Chip8::add_reg (lib.rs:252-255)                                 *)
add_reg(c, opcode) ==
  LET x == get_x(opcode)
  IN [c EXCEPT !.reg[x] = (c.reg[x] + get_kk(opcode)) % U8_MOD]

(* reg_ops with ADD writing the carry before the sum                       *)
reg_ops_add_flag_first(c, opcode) ==
  LET x == get_x(opcode)
      y == get_y(opcode)
      op == opcode % 16
      vx == c.reg[x]
      vy == c.reg[y]
  IN CASE op = 0 -> [c EXCEPT !.reg[x] = vy]
       [] op = 1 -> [c EXCEPT !.reg[x] = BitOr(vx, vy, 8)]
       [] op = 2 -> [c EXCEPT !.reg[x] = BitAnd(vx, vy, 8)]
       [] op = 3 -> [c EXCEPT !.reg[x] = BitXor(vx, vy, 8)]
       [] op = 4 ->
            LET r1 == [c.reg EXCEPT ![15] =
                                    IF vx + vy >= U8_MOD THEN 1 ELSE 0]
            IN [c EXCEPT !.reg = [r1 EXCEPT ![x] = (vx + vy) % U8_MOD]]
       [] op = 5 ->
            LET r1 == [c.reg EXCEPT ![x] = (vx - vy) % U8_MOD]
            IN [c EXCEPT !.reg = [r1 EXCEPT ![15] =
                                    IF vx < vy THEN 0 ELSE 1]]
       [] op = 6 ->
            LET r1 == [c.reg EXCEPT ![15] = IF vx % 2 = 1 THEN 1 ELSE 0]
            IN [c EXCEPT !.reg = [r1 EXCEPT ![x] = r1[x] \div 2]]
       [] op = 7 ->
            LET r1 == [c.reg EXCEPT ![x] = (vy - vx) % U8_MOD]
            IN [c EXCEPT !.reg = [r1 EXCEPT ![15] =
                                    IF vy < vx THEN 0 ELSE 1]]
       [] op = 14 ->
            LET r1 == [c.reg EXCEPT ![15] = vx \div 128]
            IN [c EXCEPT !.reg = [r1 EXCEPT ![x] = (r1[x] * 2) % U8_MOD]]
       [] OTHER -> unhandled_opcode_panic(c, opcode)

(* reg_ops with SUB storing the borrow rather than its negation            *)
reg_ops_sub_borrow_flag(c, opcode) ==
  LET x == get_x(opcode)
      y == get_y(opcode)
      op == opcode % 16
      vx == c.reg[x]
      vy == c.reg[y]
  IN CASE op = 0 -> [c EXCEPT !.reg[x] = vy]
       [] op = 1 -> [c EXCEPT !.reg[x] = BitOr(vx, vy, 8)]
       [] op = 2 -> [c EXCEPT !.reg[x] = BitAnd(vx, vy, 8)]
       [] op = 3 -> [c EXCEPT !.reg[x] = BitXor(vx, vy, 8)]
       [] op = 4 ->
            LET r1 == [c.reg EXCEPT ![x] = (vx + vy) % U8_MOD]
            IN [c EXCEPT !.reg = [r1 EXCEPT ![15] =
                                    IF vx + vy >= U8_MOD THEN 1 ELSE 0]]
       [] op = 5 ->
            LET r1 == [c.reg EXCEPT ![x] = (vx - vy) % U8_MOD]
            IN [c EXCEPT !.reg = [r1 EXCEPT ![15] =
                                    IF vx < vy THEN 1 ELSE 0]]
       [] op = 6 ->
            LET r1 == [c.reg EXCEPT ![15] = IF vx % 2 = 1 THEN 1 ELSE 0]
            IN [c EXCEPT !.reg = [r1 EXCEPT ![x] = r1[x] \div 2]]
       [] op = 7 ->
            LET r1 == [c.reg EXCEPT ![x] = (vy - vx) % U8_MOD]
            IN [c EXCEPT !.reg = [r1 EXCEPT ![15] =
                                    IF vy < vx THEN 0 ELSE 1]]
       [] op = 14 ->
            LET r1 == [c.reg EXCEPT ![15] = vx \div 128]
            IN [c EXCEPT !.reg = [r1 EXCEPT ![x] = (r1[x] * 2) % U8_MOD]]
       [] OTHER -> unhandled_opcode_panic(c, opcode)

(* reg_ops with OR clearing the flag register                              *)
reg_ops_logic_resets_flag(c, opcode) ==
  LET x == get_x(opcode)
      y == get_y(opcode)
      op == opcode % 16
      vx == c.reg[x]
      vy == c.reg[y]
  IN CASE op = 0 -> [c EXCEPT !.reg[x] = vy]
       [] op = 1 -> [c EXCEPT !.reg[x] = BitOr(vx, vy, 8), !.reg[15] = 0]
       [] op = 2 -> [c EXCEPT !.reg[x] = BitAnd(vx, vy, 8)]
       [] op = 3 -> [c EXCEPT !.reg[x] = BitXor(vx, vy, 8)]
       [] op = 4 ->
            LET r1 == [c.reg EXCEPT ![x] = (vx + vy) % U8_MOD]
            IN [c EXCEPT !.reg = [r1 EXCEPT ![15] =
                                    IF vx + vy >= U8_MOD THEN 1 ELSE 0]]
       [] op = 5 ->
            LET r1 == [c.reg EXCEPT ![x] = (vx - vy) % U8_MOD]
            IN [c EXCEPT !.reg = [r1 EXCEPT ![15] =
                                    IF vx < vy THEN 0 ELSE 1]]
       [] op = 6 ->
            LET r1 == [c.reg EXCEPT ![15] = IF vx % 2 = 1 THEN 1 ELSE 0]
            IN [c EXCEPT !.reg = [r1 EXCEPT ![x] = r1[x] \div 2]]
       [] op = 7 ->
            LET r1 == [c.reg EXCEPT ![x] = (vy - vx) % U8_MOD]
            IN [c EXCEPT !.reg = [r1 EXCEPT ![15] =
                                    IF vy < vx THEN 0 ELSE 1]]
       [] op = 14 ->
            LET r1 == [c.reg EXCEPT ![15] = vx \div 128]
            IN [c EXCEPT !.reg = [r1 EXCEPT ![x] = (r1[x] * 2) % U8_MOD]]
       [] OTHER -> unhandled_opcode_panic(c, opcode)

(* 0x8000  Chip8::reg_ops (lib.rs:257-293): the two assignments of the     *)
(* flag-setting arms are applied in the source's order                     *)
reg_ops(c, opcode) ==
  LET x == get_x(opcode)
      y == get_y(opcode)
      op == opcode % 16
      vx == c.reg[x]
      vy == c.reg[y]
  IN CASE op = 0 -> [c EXCEPT !.reg[x] = vy]
       [] op = 1 -> [c EXCEPT !.reg[x] = BitOr(vx, vy, 8)]
       [] op = 2 -> [c EXCEPT !.reg[x] = BitAnd(vx, vy, 8)]
       [] op = 3 -> [c EXCEPT !.reg[x] = BitXor(vx, vy, 8)]
       [] op = 4 ->
            LET r1 == [c.reg EXCEPT ![x] = (vx + vy) % U8_MOD]
            IN [c EXCEPT !.reg = [r1 EXCEPT ![15] =
                                    IF vx + vy >= U8_MOD THEN 1 ELSE 0]]
       [] op = 5 ->
            LET r1 == [c.reg EXCEPT ![x] = (vx - vy) % U8_MOD]
            IN [c EXCEPT !.reg = [r1 EXCEPT ![15] =
                                    IF vx < vy THEN 0 ELSE 1]]
       [] op = 6 ->
            LET r1 == [c.reg EXCEPT ![15] = IF vx % 2 = 1 THEN 1 ELSE 0]
            IN [c EXCEPT !.reg = [r1 EXCEPT ![x] = r1[x] \div 2]]
       [] op = 7 ->
            LET r1 == [c.reg EXCEPT ![x] = (vy - vx) % U8_MOD]
            IN [c EXCEPT !.reg = [r1 EXCEPT ![15] =
                                    IF vy < vx THEN 0 ELSE 1]]
       [] op = 14 ->
            LET r1 == [c.reg EXCEPT ![15] = vx \div 128]
            IN [c EXCEPT !.reg = [r1 EXCEPT ![x] = (r1[x] * 2) % U8_MOD]]
       [] OTHER -> unhandled_opcode_panic(c, opcode)

(* 0xA000  Chip8::set_index (lib.rs:295-297)                               *)
set_index(c, opcode) == [c EXCEPT !.index_reg = get_nnn(opcode)]

(* 0xB000  Chip8::jp_offset (lib.rs:299-301)                               *)
jp_offset(c, opcode) ==
  [c EXCEPT !.program_counter = get_nnn(opcode) + c.reg[0]]

(* rand combining the byte and the mask with OR                            *)
rand_or(c, opcode, rnd) ==
  [c EXCEPT !.reg[get_x(opcode)] = BitOr(rnd, get_kk(opcode), 8)]

(* 0xC000  Chip8::rand (lib.rs:303-305): rnd is the byte the generator     *)
(* produces                                                                *)
rand(c, opcode, rnd) ==
  [c EXCEPT !.reg[get_x(opcode)] = BitAnd(rnd, get_kk(opcode), 8)]

(* The inner loop with VF following the last pixel instead of any pixel    *)
RECURSIVE display_sprite_row_last(_, _, _, _, _)
display_sprite_row_last(c, mem_index, pixel_x, pixel_y, i) ==
  IF i = 8 THEN c
  ELSE IF mem_index >= MEM_MAX THEN Panic(c, "index_out_of_bounds")
  ELSE LET bit == (c.memory[mem_index] \div (2 ^ (7 - i))) % 2
           r == xor_pixel(c.frame_buffer, pixel_x, pixel_y, bit)
           c1 == [c EXCEPT !.frame_buffer = r.fb,
                           !.reg[15] = IF r.collision THEN 1 ELSE 0]
       IN IF pixel_x + 1 >= U8_MOD /\ overflow_checks
          THEN Panic(c1, "overflow")
          ELSE display_sprite_row_last(c1, mem_index, (pixel_x + 1) % U8_MOD,
                                       pixel_y, i + 1)

(* 0xD000  Chip8::display_sprite, inner loop (lib.rs:322-331): the eight   *)
(* pixels of the row at mem_index, left to right; `pixel_x += 1` is a u8   *)
(* addition                                                                *)
RECURSIVE display_sprite_row(_, _, _, _, _)
display_sprite_row(c, mem_index, pixel_x, pixel_y, i) ==
  IF i = 8 THEN c
  ELSE IF mem_index >= MEM_MAX THEN Panic(c, "index_out_of_bounds")
  ELSE LET bit == (c.memory[mem_index] \div (2 ^ (7 - i))) % 2
           r == xor_pixel(c.frame_buffer, pixel_x, pixel_y, bit)
           c1 == [c EXCEPT !.frame_buffer = r.fb,
                           !.reg[15] = IF r.collision THEN 1 ELSE c.reg[15]]
       IN IF pixel_x + 1 >= U8_MOD /\ overflow_checks
          THEN Panic(c1, "overflow")
          ELSE display_sprite_row(c1, mem_index, (pixel_x + 1) % U8_MOD,
                                  pixel_y, i + 1)

(* Chip8::display_sprite, outer loop (lib.rs:319-333): one row per memory  *)
(* byte in mem_index..end; `pixel_y += 1` is a u8 addition                 *)
RECURSIVE display_sprite_rows(_, _, _, _, _)
display_sprite_rows(c, mem_index, end, reg_x, pixel_y) ==
  IF mem_index >= end THEN c
  ELSE LET c1 == display_sprite_row(c, mem_index, reg_x, pixel_y, 0)
       IN IF c1.panic # "" THEN c1
          ELSE IF pixel_y + 1 >= U8_MOD /\ overflow_checks
          THEN Panic(c1, "overflow")
          ELSE display_sprite_rows(c1, mem_index + 1, end, reg_x,
                                   (pixel_y + 1) % U8_MOD)

(* display_sprite anchoring at the register indices X and Y                *)
display_sprite_index_anchor(c, opcode) ==
  LET bytes == opcode % 16
      reg_x == get_x(opcode)
      reg_y == get_y(opcode)
      c0 == [c EXCEPT !.reg[15] = 0]
  IN IF c.index_reg + bytes >= U16_MOD /\ overflow_checks
     THEN Panic(c0, "overflow")
     ELSE LET c1 == display_sprite_rows(c0, c.index_reg,
                                        (c.index_reg + bytes) % U16_MOD,
                                        reg_x, reg_y)
          IN IF c1.panic # "" THEN c1 ELSE update_canvas(c1)

(* Chip8::display_sprite (lib.rs:307-335); `self.index_reg + bytes` is a   *)
(* u16 addition                                                            *)
display_sprite(c, opcode) ==
  LET bytes == opcode % 16
      reg_x == c.reg[get_x(opcode)]
      reg_y == c.reg[get_y(opcode)]
      c0 == [c EXCEPT !.reg[15] = 0]
  IN IF c.index_reg + bytes >= U16_MOD /\ overflow_checks
     THEN Panic(c0, "overflow")
     ELSE LET c1 == display_sprite_rows(c0, c.index_reg,
                                        (c.index_reg + bytes) % U16_MOD,
                                        reg_x, reg_y)
          IN IF c1.panic # "" THEN c1 ELSE update_canvas(c1)

(* 0xE000  Chip8::skip_if_key_state (lib.rs:337-353)                       *)
skip_if_key_state(c, opcode) ==
  LET x == get_x(opcode)
  IN IF opcode % 256 = 158
     THEN IF c.reg[x] >= NUM_OF_KEYS THEN Panic(c, "index_out_of_bounds")
          ELSE IF c.keys[c.reg[x]] = 1
          THEN [c EXCEPT !.program_counter = c.program_counter + 2]
          ELSE c
     ELSE IF opcode % 256 = 161
     THEN IF c.reg[x] >= NUM_OF_KEYS THEN Panic(c, "index_out_of_bounds")
          ELSE IF c.keys[c.reg[x]] = 0
          THEN [c EXCEPT !.program_counter = c.program_counter + 2]
          ELSE c
     ELSE unhandled_opcode_panic(c, opcode)

(* Chip8::get_keys (lib.rs:398-400): the array whose address the host is   *)
(* handed for the keys, `self.reg.as_ptr()`                                *)
get_keys(c) == c.reg

(* The host reads key `index` at the address get_keys hands out            *)
get_key_state(c, index) == get_keys(c)[index]

(* The host reports key `index` by writing at the address get_keys hands   *)
(* out, the only access to the keys the machine offers: the byte written   *)
(* is byte `index` of the register file                                    *)
set_key(c, index, pressed) == [c EXCEPT !.reg[index] = pressed]

(* Fx33 (lib.rs:366-370): three indexed writes, each bounds-checked        *)
RECURSIVE store_bytes(_, _, _, _)
store_bytes(c, addr, bytes, k) ==
  IF k > Len(bytes) THEN c
  ELSE IF addr >= MEM_MAX THEN Panic(c, "index_out_of_bounds")
  ELSE store_bytes([c EXCEPT !.memory[addr] = bytes[k]], addr + 1, bytes, k + 1)

(* misc with Fx55 storing the exclusive range I..I+X                       *)
misc_store_exclusive(c, opcode) ==
  LET x == get_x(opcode)
      op == opcode % 256
      vx == c.reg[x]
      i == c.index_reg
  IN CASE op = 7 -> [c EXCEPT !.reg[x] = c.delay_timer]
       [] op = 10 -> wait_for_keypress(c, x)
       [] op = 21 -> [c EXCEPT !.delay_timer = vx]
       [] op = 24 -> [c EXCEPT !.sound_timer = vx]
       [] op = 30 ->
            IF i + vx >= U16_MOD /\ overflow_checks
            THEN Panic(c, "overflow")
            ELSE [c EXCEPT !.index_reg = (i + vx) % U16_MOD]
       [] op = 41 -> [c EXCEPT !.index_reg = START_OF_FONT + (vx * 5)]
       [] op = 51 ->
            store_bytes(c, i, << vx \div 100, (vx \div 10) % 10, vx % 10 >>, 1)
       [] op = 85 ->
            IF i + x >= MEM_MAX THEN Panic(c, "index_out_of_bounds")
            ELSE [c EXCEPT !.memory = [a \in 0..(MEM_MAX - 1) |->
                                         IF a >= i /\ a < i + x
                                         THEN c.reg[a - i] ELSE c.memory[a]],
                           !.index_reg = i + (x + 1)]
       [] op = 101 ->
            IF i + x >= MEM_MAX THEN Panic(c, "index_out_of_bounds")
            ELSE [c EXCEPT !.reg = [r \in 0..(REG_MAX - 1) |->
                                      IF r <= x THEN c.memory[i + r]
                                      ELSE c.reg[r]],
                           !.index_reg = i + (x + 1)]
       [] OTHER -> unhandled_opcode_panic(c, opcode)

(* misc with the tens digit of Fx33 not reduced mod 10                     *)
misc_bcd_tens(c, opcode) ==
  LET x == get_x(opcode)
      op == opcode % 256
      vx == c.reg[x]
      i == c.index_reg
  IN CASE op = 7 -> [c EXCEPT !.reg[x] = c.delay_timer]
       [] op = 10 -> wait_for_keypress(c, x)
       [] op = 21 -> [c EXCEPT !.delay_timer = vx]
       [] op = 24 -> [c EXCEPT !.sound_timer = vx]
       [] op = 30 ->
            IF i + vx >= U16_MOD /\ overflow_checks
            THEN Panic(c, "overflow")
            ELSE [c EXCEPT !.index_reg = (i + vx) % U16_MOD]
       [] op = 41 -> [c EXCEPT !.index_reg = START_OF_FONT + (vx * 5)]
       [] op = 51 ->
            store_bytes(c, i, << vx \div 100, vx \div 10, vx % 10 >>, 1)
       [] op = 85 ->
            IF i + x >= MEM_MAX THEN Panic(c, "index_out_of_bounds")
            ELSE [c EXCEPT !.memory = [a \in 0..(MEM_MAX - 1) |->
                                         IF a >= i /\ a <= i + x
                                         THEN c.reg[a - i] ELSE c.memory[a]],
                           !.index_reg = i + (x + 1)]
       [] op = 101 ->
            IF i + x >= MEM_MAX THEN Panic(c, "index_out_of_bounds")
            ELSE [c EXCEPT !.reg = [r \in 0..(REG_MAX - 1) |->
                                      IF r <= x THEN c.memory[i + r]
                                      ELSE c.reg[r]],
                           !.index_reg = i + (x + 1)]
       [] OTHER -> unhandled_opcode_panic(c, opcode)

(* misc with Fx0A recording the awaited key in the key array              *)
misc_key_latch(c, opcode) ==
  LET x == get_x(opcode)
      op == opcode % 256
      vx == c.reg[x]
      i == c.index_reg
  IN CASE op = 7 -> [c EXCEPT !.reg[x] = c.delay_timer]
       [] op = 10 -> [wait_for_keypress(c, x) EXCEPT !.keys[x] = 1]
       [] op = 21 -> [c EXCEPT !.delay_timer = vx]
       [] op = 24 -> [c EXCEPT !.sound_timer = vx]
       [] op = 30 ->
            IF i + vx >= U16_MOD /\ overflow_checks
            THEN Panic(c, "overflow")
            ELSE [c EXCEPT !.index_reg = (i + vx) % U16_MOD]
       [] op = 41 -> [c EXCEPT !.index_reg = START_OF_FONT + (vx * 5)]
       [] op = 51 ->
            store_bytes(c, i, << vx \div 100, (vx \div 10) % 10, vx % 10 >>, 1)
       [] op = 85 ->
            IF i + x >= MEM_MAX THEN Panic(c, "index_out_of_bounds")
            ELSE [c EXCEPT !.memory = [a \in 0..(MEM_MAX - 1) |->
                                         IF a >= i /\ a <= i + x
                                         THEN c.reg[a - i] ELSE c.memory[a]],
                           !.index_reg = i + (x + 1)]
       [] op = 101 ->
            IF i + x >= MEM_MAX THEN Panic(c, "index_out_of_bounds")
            ELSE [c EXCEPT !.reg = [r \in 0..(REG_MAX - 1) |->
                                      IF r <= x THEN c.memory[i + r]
                                      ELSE c.reg[r]],
                           !.index_reg = i + (x + 1)]
       [] OTHER -> unhandled_opcode_panic(c, opcode)

(* 0xF000  Chip8::misc (lib.rs:355-384)                                    *)
misc(c, opcode) ==
  LET x == get_x(opcode)
      op == opcode % 256
      vx == c.reg[x]
      i == c.index_reg
  IN CASE op = 7 -> [c EXCEPT !.reg[x] = c.delay_timer]
       [] op = 10 -> wait_for_keypress(c, x)
       [] op = 21 -> [c EXCEPT !.delay_timer = vx]
       [] op = 24 -> [c EXCEPT !.sound_timer = vx]
       [] op = 30 ->
            IF i + vx >= U16_MOD /\ overflow_checks
            THEN Panic(c, "overflow")
            ELSE [c EXCEPT !.index_reg = (i + vx) % U16_MOD]
       [] op = 41 -> [c EXCEPT !.index_reg = START_OF_FONT + (vx * 5)]
       [] op = 51 ->
            store_bytes(c, i, << vx \div 100, (vx \div 10) % 10, vx % 10 >>, 1)
       [] op = 85 ->
            IF i + x >= MEM_MAX THEN Panic(c, "index_out_of_bounds")
            ELSE [c EXCEPT !.memory = [a \in 0..(MEM_MAX - 1) |->
                                         IF a >= i /\ a <= i + x
                                         THEN c.reg[a - i] ELSE c.memory[a]],
                           !.index_reg = i + (x + 1)]
       [] op = 101 ->
            IF i + x >= MEM_MAX THEN Panic(c, "index_out_of_bounds")
            ELSE [c EXCEPT !.reg = [r \in 0..(REG_MAX - 1) |->
                                      IF r <= x THEN c.memory[i + r]
                                      ELSE c.reg[r]],
                           !.index_reg = i + (x + 1)]
       [] OTHER -> unhandled_opcode_panic(c, opcode)

(* Chip8::handle_opcode (lib.rs:163-183)                                   *)
handle_opcode(c, opcode, rnd) ==
  LET family == opcode \div 4096
  IN CASE family = 0 -> sys_addr(c, opcode)
       [] family = 1 -> jp_addr(c, opcode)
       [] family = 2 -> call_addr(c, opcode)
       [] family = 3 -> skip_if_equal(c, opcode)
       [] family = 4 -> skip_if_not_equal(c, opcode)
       [] family = 5 -> skip_if_reg_equal(c, opcode)
       [] family = 9 -> skip_if_reg_not_equal(c, opcode)
       [] family = 6 -> set_reg(c, opcode)
       [] family = 7 -> add_reg(c, opcode)
       [] family = 8 -> reg_ops(c, opcode)
       [] family = 10 -> set_index(c, opcode)
       [] family = 11 -> jp_offset(c, opcode)
       [] family = 12 -> rand(c, opcode, rnd)
       [] family = 13 -> display_sprite(c, opcode)
       [] family = 14 -> skip_if_key_state(c, opcode)
       [] family = 15 -> misc(c, opcode)
       [] OTHER -> unhandled_opcode_panic(c, opcode)

(* The instruction word at the program counter (lib.rs:186-187)            *)
fetch(c) ==
  c.memory[c.program_counter] * 256 + c.memory[c.program_counter + 1]

(* execute_instructions advancing the program counter after the handler   *)
execute_instructions_late_advance(c, rnd) ==
  IF c.program_counter + 1 >= MEM_MAX
  THEN Panic(c, "index_out_of_bounds")
  ELSE LET c1 == handle_opcode(c, fetch(c), rnd)
       IN IF c1.panic # "" THEN c1
          ELSE [c1 EXCEPT !.program_counter = c1.program_counter + 2]

(* Chip8::execute_instructions (lib.rs:185-190)                            *)
execute_instructions(c, rnd) ==
  IF c.program_counter + 1 >= MEM_MAX
  THEN Panic(c, "index_out_of_bounds")
  ELSE handle_opcode([c EXCEPT !.program_counter = c.program_counter + 2],
                     fetch(c), rnd)

(* tick decrementing the delay timer before the instruction               *)
tick_decrement_first(c, rnd) ==
  LET c0 == IF c.delay_timer > 0
            THEN [c EXCEPT !.delay_timer = c.delay_timer - 1]
            ELSE c
  IN execute_instructions(c0, rnd)

(* Chip8::tick (lib.rs:192-202)                                            *)
tick(c, rnd) ==
  LET c1 == execute_instructions(c, rnd)
  IN IF c1.panic # "" THEN c1
     ELSE IF c1.delay_timer > 0
     THEN [c1 EXCEPT !.delay_timer = c1.delay_timer - 1]
     ELSE c1

----------------------------------------------------------------------------
(* The host: programs, direct opcodes and the bytes of the random source   *)

(* Programs as instruction words; the host copies a program to 0x200 as    *)
(* big-endian bytes                                                        *)
Programs ==
  << (* timers: VA = 3, sound = VA, delay = VA, VB = delay, ..., spin     *)
     << \H6A03, \HFA18, \HFA15, \HFB07, \H6B01, \H6B02, \H120C >>,
     (* wait for a key, then load VA and spin                              *)
     << \HF50A, \H6A42, \H1204 >>,
     (* return with nothing on the stack                                   *)
     << \H00EE >>,
     (* a routine that calls itself                                        *)
     << \H2200 >>,
     (* nested calls: 0x200 calls 0x206, which calls 0x20A                 *)
     << \H2206, \H1202, \H0123, \H220A, \H00EE, \H00EE >>,
     (* V0 = 4, jump to 0x208 + V0, skip, clear, spin                      *)
     << \H6004, \HB208, \H0000, \H0000, \H0000, \H0000, \H3004, \H0000,
        \H00E0, \H1212 >>,
     (* draw the glyph of 0 at (VA, VB) = (250, 2), then at (2, 2)         *)
     << \H6AFA, \H6B02, \HA050, \HDAB2, \H6A02, \HDAB5, \H120C >>,
     (* BCD of 157 at I = 0xFFE                                            *)
     << \HAFFE, \H6A9D, \HFA33, \H1206 >>,
     (* memory[0xFFF] = 0xFF, then a two-row sprite at I = 0xFFF           *)
     << \H60FF, \HAFFF, \HF055, \HAFFF, \HD122, \H120A >>,
     (* store V0..V1 at I = 0xFFF                                          *)
     << \H60FF, \HAFFF, \HF155, \H1206 >>,
     (* an unrecognised ALU word between two loads                         *)
     << \H6A01, \H8AB8, \H6A02, \H1206 >>,
     (* a jump to the last byte of memory                                  *)
     << \H1FFF >>,
     (* V0 = 0xFF, jump to 0xFFF + V0                                      *)
     << \H60FF, \HBFFF >>,
     (* delay = V0 = 0, V1 = delay, spin                                   *)
     << \HF015, \HF107, \H1204 >> >>

DirectOpcodes ==
  { \H00E0, \H00EE, \H0123, \H2208, \H6A42, \H8AB8, \HE5FF, \HF5FF, \HFA18 }

RandBytes == { 0, \H5A, \HFF }

(* load: the host copies the instruction stream into memory from 0x200     *)
load(c, words) ==
  [c EXCEPT !.memory = [a \in 0..(MEM_MAX - 1) |->
     IF a >= PROGRAM_START /\ a < PROGRAM_START + 2 * Len(words)
     THEN LET w == words[((a - PROGRAM_START) \div 2) + 1]
          IN IF (a - PROGRAM_START) % 2 = 0 THEN w \div 256 ELSE w % 256
     ELSE c.memory[a]]]

----------------------------------------------------------------------------
(* History of the last entry-point call, and the bookkeeping of calls:     *)
(* `shadow` holds, for every call not yet returned from, the address that  *)
(* follows the call and the stack before it.                               *)
NoExpect == [ret |-> -1, stack |-> << >>]

Last(call, opcode, expect) ==
  [call |-> call, opcode |-> opcode, pc |-> chip8.program_counter,
   stack |-> chip8.stack, expect |-> expect]

IsCall(opcode) == opcode \div 4096 = 2

IsReturn(opcode) == opcode = \H00EE

(* shadow after `opcode`, dispatched with return address ret, succeeded    *)
ShadowAfter(opcode, ret) ==
  IF IsCall(opcode)
  THEN Append(shadow, [ret |-> ret, stack |-> chip8.stack])
  ELSE IF IsReturn(opcode) /\ Len(shadow) > 0
  THEN SubSeq(shadow, 1, Len(shadow) - 1)
  ELSE shadow

ExpectAfter(opcode) ==
  IF IsReturn(opcode) /\ Len(shadow) > 0 THEN shadow[Len(shadow)]
  ELSE NoExpect

(* What the host has reported about the keys: the state it believes each   *)
(* key to be in, and the number of reports made                            *)
NoKeyEvents == [keys |-> [k \in 0..(NUM_OF_KEYS - 1) |-> 0], events |-> 0]

----------------------------------------------------------------------------
Init ==
  /\ chip8 = new
  /\ overflow_checks \in BOOLEAN
  /\ last = [call |-> "new", opcode |-> -1, pc |-> PROGRAM_START,
             stack |-> << >>, expect |-> NoExpect]
  /\ shadow = << >>
  /\ nops = 0
  /\ nresets = 0
  /\ start = new
  /\ script = << >>
  /\ done = << >>
  /\ host = NoKeyEvents

(* The host loads a program into the machine it has just built             *)
Load(p) ==
  /\ chip8.panic = ""
  /\ last.call = "new"
  /\ chip8' = load(chip8, Programs[p])
  /\ last' = Last("load", -1, NoExpect)
  /\ UNCHANGED <<overflow_checks, shadow, nops, nresets, start, script, done, host>>

(* The host calls handle_opcode(opcode)                                    *)
HandleOpcode(opcode, rnd) ==
  /\ chip8.panic = ""
  /\ nops < MaxOps
  /\ Len(chip8.stack) < MaxStack
  /\ chip8' = handle_opcode(chip8, opcode, rnd)
  /\ last' = Last("handle_opcode", opcode, ExpectAfter(opcode))
  /\ shadow' = IF chip8'.panic = ""
               THEN ShadowAfter(opcode, chip8.program_counter) ELSE shadow
  /\ nops' = nops + 1
  /\ UNCHANGED <<overflow_checks, nresets, start, script, done, host>>

(* The host calls tick()                                                   *)
Tick(rnd) ==
  /\ chip8.panic = ""
  /\ Len(chip8.stack) < MaxStack
  /\ chip8' = tick(chip8, rnd)
  /\ LET fetched == chip8.program_counter + 1 < MEM_MAX
         opcode == IF fetched THEN fetch(chip8) ELSE -1
     IN /\ last' = Last("tick", opcode, ExpectAfter(opcode))
        /\ shadow' = IF chip8'.panic = ""
                     THEN ShadowAfter(opcode, chip8.program_counter + 2)
                     ELSE shadow
  /\ UNCHANGED <<overflow_checks, nops, nresets, start, script, done, host>>

(* The host calls reset()                                                  *)
Reset ==
  /\ chip8.panic = ""
  /\ nresets < MaxResets
  /\ chip8' = reset(chip8)
  /\ last' = Last("reset", -1, NoExpect)
  /\ shadow' = << >>
  /\ nresets' = nresets + 1
  /\ UNCHANGED <<overflow_checks, nops, start, script, done, host>>

Next ==
  \/ \E p \in 1..Len(Programs) : Load(p)
  \/ \E opcode \in DirectOpcodes, rnd \in RandBytes : HandleOpcode(opcode, rnd)
  \/ \E rnd \in RandBytes : Tick(rnd)
  \/ Reset

Spec == Init /\ [][Next]_vars

----------------------------------------------------------------------------
(* SpecOp: handle_opcode applied along a sequence of opcodes to machine    *)
(* states that handle_opcode can produce from new(): any register values   *)
(* (6xkk), any I (Annn), any bytes from 0x200 (Fx55), any 0/1 frame buffer *)
(* (Dxyn).                                                                 *)

Op(family, x, y, n) == family * 4096 + x * 256 + y * 16 + n

OpKK(family, x, kk) == family * 4096 + x * 256 + kk

OpNNN(family, nnn) == family * 4096 + nnn

(* Register files: all zero; sixteen distinct values; 255 and 1 alternating *)
RegFiles ==
  { [i \in 0..(REG_MAX - 1) |-> 0],
    [i \in 0..(REG_MAX - 1) |-> (i * 37 + 200) % 256],
    [i \in 0..(REG_MAX - 1) |-> IF i % 2 = 0 THEN 255 ELSE 1] }

(* Registers that serve as anchors: 2 and 66 wrap to the same column,      *)
(* 62 and 31 are at the right and bottom edge, 250 and 255 at the end of   *)
(* the u8 range                                                            *)
DrawRegFiles ==
  { [i \in 0..(REG_MAX - 1) |-> 0],
    [i \in 0..(REG_MAX - 1) |->
       CASE i = 1 -> 2 [] i = 2 -> 2 [] i = 3 -> 62 [] i = 4 -> 31
         [] i = 5 -> 250 [] i = 6 -> 255 [] i = 7 -> 66 [] i = 15 -> 1
         [] OTHER -> 0] }

(* Sprite rows the host has stored from 0x200                              *)
SpriteBytes == << \HC0, \HC0, \HF0, \HA0, \H00, \HFF, \H81 >>

SpriteMemory ==
  [a \in 0..(MEM_MAX - 1) |->
     IF a >= PROGRAM_START /\ a < PROGRAM_START + Len(SpriteBytes)
     THEN SpriteBytes[a - PROGRAM_START + 1] ELSE new.memory[a]]

(* The single row 0xF0 stored at 0x200                                     *)
RowMemory == [new.memory EXCEPT ![PROGRAM_START] = \HF0]

Pixels(set) ==
  [i \in 0..(FRAME_BUF_MAX - 1) |->
     IF \E p \in set : i = p[2] * FRAME_BUF_WIDTH + p[1] THEN 1 ELSE 0]

FrameBuffers ==
  { Pixels({}),
    Pixels({<<2, 2>>, <<4, 2>>}),
    Pixels({<<2, 3>>, <<2, 5>>, <<2, 9>>, <<3, 2>>, <<5, 2>>}),
    Pixels({<<0, 0>>, <<1, 0>>, <<3, 0>>, <<0, 1>>, <<63, 31>>, <<62, 0>>,
            <<2, 2>>, <<3, 3>>}),
    [i \in 0..(FRAME_BUF_MAX - 1) |-> 1] }

Machine(regs, i, mem, fb) ==
  [new EXCEPT !.reg = regs, !.index_reg = i, !.memory = mem,
              !.frame_buffer = fb]

(* ALU and add-immediate words: every X, with Y below, at and above X      *)
AluOpcodes ==
  { Op(8, x, y, n) : x \in 0..15, y \in {1, 2, 15}, n \in (0..7) \cup {14} }
  \cup { OpKK(7, x, kk) : x \in 0..15, kk \in {0, \H20, \HF0} }

AluCases ==
  { [machine |-> Machine(r, 0, new.memory, Pixels({})), script |-> << op >>] :
      r \in RegFiles \ {new.reg}, op \in AluOpcodes }

(* Draws, each issued twice                                                *)
DrawOpcodes ==
  { Op(13, xy[1], xy[2], n) :
      xy \in { <<2, 2>>, <<1, 2>>, <<3, 4>>, <<5, 1>>, <<6, 6>>, <<7, 1>>,
               <<15, 1>>, <<1, 15>> },
      n \in {0, 1, 2} }

DrawIndexes == { \H200, \H202, \H203, \H204, \HFFF }

DrawCases ==
  { [machine |-> Machine(r, i, SpriteMemory, fb), script |-> << op, op >>] :
      r \in DrawRegFiles \ {new.reg}, i \in DrawIndexes,
      fb \in FrameBuffers, op \in DrawOpcodes }
  \cup
  { [machine |-> Machine(new.reg, i, SpriteMemory, fb),
     script |-> << op, op >>] :
      i \in DrawIndexes, fb \in FrameBuffers,
      op \in { \HD221, \HD222, \HD225 } }
  \cup
  { [machine |-> Machine(new.reg, PROGRAM_START, RowMemory, fb),
     script |-> << \HD221, \HD221 >>] : fb \in FrameBuffers }

(* BCD; store, clobber by a load from zeroed memory, restore                *)
(* I and load back; BCD of every byte                                      *)
MemIndexes == { \H300, \H50, \HFF0 }

ZeroRegion == \H400

MemScripts ==
  { << OpNNN(10, i), OpKK(15, x, \H33) >> :
      i \in {\H300, \HFFD, \HFFE}, x \in {0, 7, 15} }
  \cup { << OpNNN(10, i), OpKK(15, x, \H55), OpNNN(10, ZeroRegion),
            OpKK(15, x, \H65), OpNNN(10, i), OpKK(15, x, \H65) >> :
           i \in MemIndexes, x \in 0..15 }

MemCases ==
  { [machine |-> Machine(r, 0, SpriteMemory, Pixels({})), script |-> sc] :
      r \in RegFiles \ {new.reg}, sc \in MemScripts }
  \cup
  { [machine |-> Machine([new.reg EXCEPT ![3] = v], \H300, SpriteMemory,
                         Pixels({})),
     script |-> << OpKK(15, 3, \H33) >>] : v \in 0..255 }

(* Fx29 with every hex digit in V3, on the memory new() builds             *)
FontCases ==
  { [machine |-> Machine([new.reg EXCEPT ![3] = d], 0, new.memory,
                         Pixels({})),
     script |-> << OpKK(15, 3, \H29) >>] : d \in 0..15 }

(* Registers holding key indices: V0 = 15, V1 = 14, ..., VF = 0            *)
KeyRegFile == [r \in 0..(REG_MAX - 1) |-> 15 - r]

KeyIndexes == {0, 12}

(* Ex9E and ExA1 on registers that hold key indices and on registers that  *)
(* hold any byte                                                           *)
KeyCases ==
  { [machine |-> Machine(r, 0, new.memory, Pixels({})),
     script |-> << OpKK(14, x, nn) >>] :
      r \in RegFiles \cup {KeyRegFile}, x \in {0, 3, 8, 15},
      nn \in {\H9E, \HA1} }

(* The four skips, with operands that are equal and that differ            *)
SkipOpcodes ==
  { OpKK(f, x, kk) : f \in {3, 4}, x \in {0, 1, 15},
                     kk \in {0, 1, \HC8, \HFF} }
  \cup { Op(f, x, y, 0) : f \in {5, 9}, x \in {0, 1, 2, 15},
                          y \in {0, 1, 2, 15} }

SkipCases ==
  { [machine |-> Machine(r, 0, new.memory, Pixels({})), script |-> << op >>] :
      r \in RegFiles, op \in SkipOpcodes }

(* 00E0 after a call and after both timers were set                        *)
ClearCases ==
  { [machine |-> Machine(r, \H300, SpriteMemory, fb),
     script |-> << \H2300, \HF015, \HF118, \H00E0 >>] :
      r \in RegFiles \ {new.reg}, fb \in FrameBuffers }

(* Cxkk with the masks 0x00, 0x0F, 0xA5 and 0xFF                           *)
RandCases ==
  { [machine |-> Machine(r, \H300, SpriteMemory, Pixels({<<2, 2>>})),
     script |-> << OpKK(12, x, kk) >>] :
      r \in RegFiles \ {new.reg}, x \in {0, 5, 15},
      kk \in {\H00, \H0F, \HA5, \HFF} }

(* Annn followed by Fx1E or Fx29                                           *)
IndexCases ==
  { [machine |-> Machine(r, 0, new.memory, Pixels({})),
     script |-> << OpNNN(10, i), OpKK(15, x, nn) >>] :
      r \in RegFiles \ {new.reg}, i \in {\H300, \HFFF}, x \in {0, 15},
      nn \in {\H1E, \H29} }

Cases ==
  AluCases \cup DrawCases \cup MemCases \cup FontCases \cup KeyCases
    \cup SkipCases \cup ClearCases \cup RandCases \cup IndexCases

InitOp ==
  /\ \E case \in Cases :
       /\ chip8 = case.machine
       /\ start = case.machine
       /\ script = case.script
  /\ overflow_checks \in BOOLEAN
  /\ last = [call |-> "new", opcode |-> -1, pc |-> PROGRAM_START,
             stack |-> << >>, expect |-> NoExpect]
  /\ shadow = << >>
  /\ nops = 0
  /\ nresets = 0
  /\ done = << >>
  /\ host = NoKeyEvents

(* The host calls handle_opcode with the next opcode of the sequence       *)
Run(rnd) ==
  /\ chip8.panic = ""
  /\ script # << >>
  /\ chip8' = handle_opcode(chip8, Head(script), rnd)
  /\ last' = Last("handle_opcode", Head(script), ExpectAfter(Head(script)))
  /\ shadow' = IF chip8'.panic = ""
               THEN ShadowAfter(Head(script), chip8.program_counter)
               ELSE shadow
  /\ script' = Tail(script)
  /\ done' = Append(done, Head(script))
  /\ UNCHANGED <<overflow_checks, nops, nresets, start, host>>

(* The host reports a key before a key-skip instruction                    *)
SetKey(index, pressed) ==
  /\ chip8.panic = ""
  /\ script # << >>
  /\ Head(script) \div 4096 = 14
  /\ host.events < MaxKeyEvents
  /\ chip8' = set_key(chip8, index, pressed)
  /\ host' = [keys |-> [host.keys EXCEPT ![index] = pressed],
              events |-> host.events + 1]
  /\ last' = Last("set_key", -1, NoExpect)
  /\ UNCHANGED <<overflow_checks, shadow, nops, nresets, start, script, done>>

(* Only Cxkk asks the generator for a byte                                 *)
RandFor(opcode) == IF opcode \div 4096 = 12 THEN RandBytes ELSE {0}

NextOp ==
  \/ script # << >> /\ \E rnd \in RandFor(Head(script)) : Run(rnd)
  \/ \E index \in KeyIndexes, pressed \in {0, 1} : SetKey(index, pressed)

SpecOp == InitOp /\ [][NextOp]_vars

TypeOK ==
  /\ chip8.panic \in {"", "unhandled_opcode", "unwrap_none",
                      "index_out_of_bounds", "overflow"}
  /\ \A a \in 0..(MEM_MAX - 1) : chip8.memory[a] \in 0..255
  /\ \A i \in 0..(REG_MAX - 1) : chip8.reg[i] \in 0..255
  /\ chip8.index_reg \in 0..(U16_MOD - 1)
  /\ chip8.delay_timer \in 0..255
  /\ chip8.sound_timer \in 0..255

----------------------------------------------------------------------------
(* Vocabulary of the properties                                            *)
Family(opcode) == opcode \div 4096

Executed(l) == l.call \in {"tick", "handle_opcode"} /\ l.opcode >= 0

NoKeyPressed(c) == \A k \in 0..(NUM_OF_KEYS - 1) : c.keys[k] = 0

IsWaitKey(opcode) == Family(opcode) = 15 /\ opcode % 256 = \H0A

(* The words the instruction set does not define                           *)
Unrecognised(opcode) ==
  \/ Family(opcode) = 0 /\ opcode \notin {\H00E0, \H00EE}
  \/ Family(opcode) = 8 /\ (opcode % 16) \in ((8..13) \cup {15})
  \/ Family(opcode) = 14 /\ (opcode % 256) \notin {\H9E, \HA1}
  \/ Family(opcode) = 15 /\ (opcode % 256) \notin
       {\H07, \H0A, \H15, \H18, \H1E, \H29, \H33, \H55, \H65}

(* The instructions that address memory through the index register         *)
IsIndexRelative(opcode) ==
  \/ Family(opcode) = 13
  \/ Family(opcode) = 15 /\ (opcode % 256) \in {\H33, \H55, \H65}

(* A timer after one tick whose instruction left it at t                   *)
Decremented(t) == IF t > 0 THEN t - 1 ELSE 0

(* The depth a call stack may reach (spec, design notes: 12 to 16)         *)
MaxStackDepth == 16

----------------------------------------------------------------------------
(* C1: every tick that completes decrements the delay timer and the sound  *)
(* timer by one when they are above 0, after the instruction has run (so   *)
(* Fx15/Fx18 in that tick set the value that is decremented).              *)
C1_BothTimersDecrement ==
  [][ (last'.call = "tick" /\ last'.opcode >= 0 /\ chip8'.panic = "") =>
        LET op == last'.opcode
            x == get_x(op)
            d == IF Family(op) = 15 /\ op % 256 = \H15
                 THEN chip8.reg[x] ELSE chip8.delay_timer
            s == IF Family(op) = 15 /\ op % 256 = \H18
                 THEN chip8.reg[x] ELSE chip8.sound_timer
        IN /\ chip8'.delay_timer = Decremented(d)
           /\ chip8'.sound_timer = Decremented(s) ]_vars

(* C2: a tick that follows the tick that fetched Fx0A, with no key         *)
(* pressed, executes nothing: the program counter and the registers stay.  *)
C2_KeyWaitHolds ==
  [][ (last.call = "tick" /\ last.opcode >= 0 /\ IsWaitKey(last.opcode)
       /\ NoKeyPressed(chip8) /\ last'.call = "tick") =>
        /\ chip8'.program_counter = chip8.program_counter
        /\ chip8'.reg = chip8.reg ]_vars

(* C3: an unrecognised instruction word is a reported outcome: the call    *)
(* returns and the machine is not aborted.                                 *)
C3_InvalidOpcodeRecoverable ==
  (Executed(last) /\ Unrecognised(last.opcode)) => chip8.panic = ""

(* C4: 00EE on an empty stack reports an error: it neither aborts nor      *)
(* moves the program counter to a default.                                 *)
C4_StackUnderflowReported ==
  (Executed(last) /\ IsReturn(last.opcode) /\ Len(last.stack) = 0) =>
     /\ chip8.panic = ""
     /\ chip8.stack = << >>

(* C5: the call stack never holds more than the maximum depth.             *)
C5_StackBounded == Len(chip8.stack) <= MaxStackDepth

(* C6: reset leaves the machine as new() builds it.                        *)
C6_ResetEqualsNew == last.call = "reset" => chip8 = new

(* C7: a return that finds its call on the stack sets the program counter  *)
(* to the address that followed the call and leaves the stack as it was    *)
(* before the call, whatever balanced calls and returns ran in between.    *)
C7_CallReturn ==
  (Executed(last) /\ IsReturn(last.opcode) /\ Len(last.stack) > 0) =>
     /\ chip8.panic = ""
     /\ chip8.program_counter = last.expect.ret
     /\ chip8.stack = last.expect.stack

(* a return to 0x208 out of the inner of two nested calls                  *)
C7_Witness ==
  /\ last.call = "tick" /\ IsReturn(last.opcode)
  /\ Len(last.stack) = 2
  /\ chip8.program_counter = \H208
  /\ chip8.stack = << \H202 >>

(* C8: tick executes the word memory[PC]*256 + memory[PC+1] with the       *)
(* program counter already advanced: 1nnn leaves PC = NNN, 2nnn pushes     *)
(* PC+2, Bnnn leaves PC = NNN + V0, and an instruction that is not a       *)
(* jump, call, return or skip leaves PC two past the instruction.          *)
C8_FetchAdvance ==
  [][ (last'.call = "tick" /\ chip8.program_counter + 1 < MEM_MAX) =>
        LET a == chip8.program_counter
            w == chip8.memory[a] * 256 + chip8.memory[a + 1]
            nnn == w % 4096
            f == w \div 4096
        IN /\ f = 1 => chip8'.panic = "" /\ chip8'.program_counter = nnn
           /\ f = 2 => /\ chip8'.panic = ""
                       /\ chip8'.program_counter = nnn
                       /\ chip8'.stack = Append(chip8.stack, a + 2)
           /\ f = 11 => /\ chip8'.panic = ""
                        /\ chip8'.program_counter = nnn + chip8.reg[0]
           /\ f = 6 => /\ chip8'.panic = ""
                       /\ chip8'.program_counter = a + 2
                       /\ chip8'.reg[(w \div 256) % 16] = w % 256
           /\ f \in {7, 10} =>
                 chip8'.panic = "" /\ chip8'.program_counter = a + 2
           /\ (f \in {8, 12, 13, 15} \/ w = \H00E0) =>
                 (chip8'.panic = "" => chip8'.program_counter = a + 2) ]_vars

(* Bnnn fetched at 0x202 with V0 = 4 has left PC = 0x208 + 4               *)
C8_Witness ==
  /\ last.call = "tick" /\ last.opcode = \HB208 /\ last.pc = \H202
  /\ chip8.reg[0] = 4
  /\ chip8.program_counter = \H20C

(* C9: an index-relative access past the end of memory is a reported       *)
(* error: the call does not abort on the out-of-bounds address.            *)
C9_MemoryOutOfBoundsReported ==
  (Executed(last) /\ IsIndexRelative(last.opcode)) =>
     chip8.panic # "index_out_of_bounds"

(* C10: Dxyn over a sprite inside memory completes, and the frame buffer   *)
(* afterwards is the one before with bit (7-c) of memory[I+r] XORed into   *)
(* pixel ((VX+c) mod 64, (VY+r) mod 32) for r < N, c < 8, nothing else.    *)
SpriteBit(c, opcode, px, py) ==
  LET col == (px - c.reg[get_x(opcode)]) % FRAME_BUF_WIDTH
      row == (py - c.reg[get_y(opcode)]) % FRAME_BUF_HEIGHT
  IN IF col < 8 /\ row < opcode % 16
     THEN (c.memory[c.index_reg + row] \div (2 ^ (7 - col))) % 2
     ELSE 0

C10_DrawAnchorsAtRegisterValues ==
  [][ (Executed(last') /\ Family(last'.opcode) = 13 /\ chip8.panic = ""
       /\ chip8.index_reg + (last'.opcode % 16) <= MEM_MAX) =>
        /\ chip8'.panic = ""
        /\ \A px \in 0..(FRAME_BUF_WIDTH - 1), py \in 0..(FRAME_BUF_HEIGHT - 1) :
             chip8'.frame_buffer[py * FRAME_BUF_WIDTH + px] =
               (chip8.frame_buffer[py * FRAME_BUF_WIDTH + px]
                + SpriteBit(chip8, last'.opcode, px, py)) % 2 ]_vars

----------------------------------------------------------------------------
(* Vocabulary of the properties on SpecOp                                  *)
PixelIndex(px, py) == py * FRAME_BUF_WIDTH + px

IsDraw(opcode) == Family(opcode) = 13

(* C11: after Dxyn, VF is 1 exactly when some pixel that was set before    *)
(* the draw is clear after it, and 0 otherwise, whatever VF held before.   *)
C11_CollisionFlagAggregate ==
  [][ (Executed(last') /\ IsDraw(last'.opcode)) =>
        /\ chip8'.reg[15] \in {0, 1}
        /\ chip8'.reg[15] = 1 <=>
             \E i \in 0..(FRAME_BUF_MAX - 1) :
                chip8.frame_buffer[i] = 1 /\ chip8'.frame_buffer[i] = 0 ]_vars

(* row 0xF0 drawn at (2, 2) over pixels (2,2) and (4,2): the first and     *)
(* third pixel collide, the second and fourth are set, VF = 1              *)
C11_Witness ==
  /\ done = << \HD121 >>
  /\ start.index_reg = \H202 /\ start.reg[1] = 2 /\ start.reg[2] = 2
  /\ start.frame_buffer[PixelIndex(2, 2)] = 1
  /\ start.frame_buffer[PixelIndex(5, 2)] = 0
  /\ chip8.frame_buffer[PixelIndex(2, 2)] = 0
  /\ chip8.frame_buffer[PixelIndex(5, 2)] = 1
  /\ chip8.reg[15] = 1

(* The second of two identical draws: the same opcode again, with I, the   *)
(* sprite rows inside memory and the anchor registers as at the first      *)
SecondDraw ==
  /\ Executed(last')
  /\ Len(done) = 1 /\ IsDraw(done[1]) /\ script = << done[1] >>
  /\ start.index_reg + (done[1] % 16) <= MEM_MAX
  /\ chip8.index_reg = start.index_reg
  /\ chip8.memory = start.memory
  /\ chip8.reg[get_x(done[1])] = start.reg[get_x(done[1])]
  /\ chip8.reg[get_y(done[1])] = start.reg[get_y(done[1])]

(* the pixels under the set bits of the sprite                             *)
Footprint(opcode) ==
  { p \in (0..(FRAME_BUF_WIDTH - 1)) \X (0..(FRAME_BUF_HEIGHT - 1)) :
      SpriteBit(start, opcode, p[1], p[2]) = 1 }

(* C12 as stated: after the second of two identical draws every pixel the  *)
(* sprite touched is clear and VF = 1.                                     *)
C12_DrawTwiceErases ==
  [][ SecondDraw =>
        /\ chip8'.reg[15] = 1
        /\ \A p \in Footprint(done[1]) :
             chip8'.frame_buffer[PixelIndex(p[1], p[2])] = 0 ]_vars

(* C12 amended: when the sprite has a set bit and every pixel under its    *)
(* set bits is clear before the first draw, the second draw leaves those   *)
(* pixels clear, the frame buffer as before the first draw, and VF = 1.    *)
C12_DrawTwiceErasesFromClear ==
  [][ (/\ SecondDraw
       /\ Footprint(done[1]) # {}
       /\ \A p \in Footprint(done[1]) :
            start.frame_buffer[PixelIndex(p[1], p[2])] = 0) =>
        /\ chip8'.panic = ""
        /\ chip8'.reg[15] = 1
        /\ chip8'.frame_buffer = start.frame_buffer
        /\ \A p \in Footprint(done[1]) :
             chip8'.frame_buffer[PixelIndex(p[1], p[2])] = 0 ]_vars

(* rows 0xC0, 0xC0 drawn twice at (2, 2) on a clear frame buffer           *)
C12_Witness ==
  /\ done = << \HD122, \HD122 >>
  /\ start.index_reg = \H200 /\ start.reg[1] = 2 /\ start.reg[2] = 2
  /\ \A i \in 0..(FRAME_BUF_MAX - 1) : start.frame_buffer[i] = 0
  /\ chip8.frame_buffer = start.frame_buffer
  /\ chip8.reg[15] = 1

(* A machine as new() builds it, but for I = 0x200 and the bytes stored    *)
(* from 0x200                                                              *)
FreshWith(mem, fb) ==
  /\ start.reg = new.reg
  /\ start.index_reg = PROGRAM_START
  /\ start.memory = mem
  /\ start.frame_buffer = fb

IsAlu(opcode, n) == Family(opcode) = 8 /\ opcode % 16 = n

(* Every part of the machine but the registers is as before the step       *)
OnlyRegistersChange ==
  chip8' = [chip8 EXCEPT !.reg = chip8'.reg]

(* C14 as stated: for all X, Y (X = 0xF and Y = 0xF included), after 8xy4  *)
(* VF is 1 iff the sum of the operands' old values is >= 256, else 0, and  *)
(* register X holds the sum mod 256.                                       *)
C14_AddCarryAndSum ==
  [][ (Executed(last') /\ IsAlu(last'.opcode, 4)) =>
        LET x == get_x(last'.opcode)
            sum == chip8.reg[x] + chip8.reg[get_y(last'.opcode)]
        IN /\ chip8'.reg[15] = IF sum >= 256 THEN 1 ELSE 0
           /\ chip8'.reg[x] = sum % 256 ]_vars

(* C14 amended: VF is the carry for all X, Y; register X holds the sum     *)
(* mod 256 when X is not 0xF.                                              *)
C14_AddCarryThenSum ==
  [][ (Executed(last') /\ IsAlu(last'.opcode, 4)) =>
        LET x == get_x(last'.opcode)
            sum == chip8.reg[x] + chip8.reg[get_y(last'.opcode)]
        IN /\ chip8'.panic = ""
           /\ chip8'.reg[15] = IF sum >= 256 THEN 1 ELSE 0
           /\ x # 15 => chip8'.reg[x] = sum % 256 ]_vars

(* 8F14 has run on operands whose sum carries and is not 1 mod 256         *)
C14_Witness ==
  /\ done = << \H8F14 >>
  /\ start.reg[15] + start.reg[1] >= 256
  /\ (start.reg[15] + start.reg[1]) % 256 # 1
  /\ chip8.reg[15] = 1

(* C15 as stated: after 8xy5 VF is 1 iff old VX >= old VY, after 8xy7 VF   *)
(* is 1 iff old VY >= old VX, else 0, and in both cases register X holds   *)
(* the difference mod 256, for all X, Y.                                   *)
C15_SubBorrowAndDifference ==
  [][ (Executed(last') /\ (IsAlu(last'.opcode, 5) \/ IsAlu(last'.opcode, 7))) =>
        LET x == get_x(last'.opcode)
            vx == chip8.reg[x]
            vy == chip8.reg[get_y(last'.opcode)]
            minuend == IF IsAlu(last'.opcode, 5) THEN vx ELSE vy
            subtrahend == IF IsAlu(last'.opcode, 5) THEN vy ELSE vx
        IN /\ chip8'.reg[15] = IF minuend >= subtrahend THEN 1 ELSE 0
           /\ chip8'.reg[x] = (minuend - subtrahend) % 256 ]_vars

(* C15 amended: VF is the no-borrow flag for all X, Y; register X holds    *)
(* the difference mod 256 when X is not 0xF.                               *)
C15_SubBorrowThenDifference ==
  [][ (Executed(last') /\ (IsAlu(last'.opcode, 5) \/ IsAlu(last'.opcode, 7))) =>
        LET x == get_x(last'.opcode)
            vx == chip8.reg[x]
            vy == chip8.reg[get_y(last'.opcode)]
            minuend == IF IsAlu(last'.opcode, 5) THEN vx ELSE vy
            subtrahend == IF IsAlu(last'.opcode, 5) THEN vy ELSE vx
        IN /\ chip8'.panic = ""
           /\ chip8'.reg[15] = IF minuend >= subtrahend THEN 1 ELSE 0
           /\ x # 15 => chip8'.reg[x] = (minuend - subtrahend) % 256 ]_vars

(* 8125 has run with V1 < V2: the difference wrapped and VF is 0           *)
C15_Witness ==
  /\ done = << \H8125 >>
  /\ start.reg[1] < start.reg[2]
  /\ chip8.reg[1] = start.reg[1] - start.reg[2] + 256
  /\ chip8.reg[15] = 0

(* C16: for every X (0xF included) after 8xy6 VF is the least-significant  *)
(* bit VX had, after 8xyE VF is the most-significant bit VX had; for X not *)
(* 0xF register X holds VX >> 1, respectively (VX << 1) mod 256.           *)
C16_ShiftFlag ==
  [][ (Executed(last') /\ (IsAlu(last'.opcode, 6) \/ IsAlu(last'.opcode, 14))) =>
        LET x == get_x(last'.opcode)
            vx == chip8.reg[x]
            right == IsAlu(last'.opcode, 6)
        IN /\ chip8'.reg[15] = IF right THEN vx % 2 ELSE vx \div 128
           /\ x # 15 => chip8'.reg[x] =
                          IF right THEN vx \div 2 ELSE (vx * 2) % 256 ]_vars

(* C17: 7xkk sets register X to (old VX + KK) mod 256 and leaves every     *)
(* other register, VF included when X is not 0xF, unchanged, also when the *)
(* addition wraps.                                                         *)
C17_AddImmediateWraps ==
  [][ (Executed(last') /\ Family(last'.opcode) = 7) =>
        LET x == get_x(last'.opcode)
        IN /\ chip8'.panic = ""
           /\ chip8'.reg[x] = (chip8.reg[x] + get_kk(last'.opcode)) % 256
           /\ \A r \in 0..(REG_MAX - 1) :
                r # x => chip8'.reg[r] = chip8.reg[r] ]_vars

(* 72F0 has run on a V2 that wraps, with a non-zero VF left as it was      *)
C17_Witness ==
  /\ done = << \H72F0 >>
  /\ start.reg[2] + \HF0 >= 256
  /\ chip8.reg[2] = start.reg[2] + \HF0 - 256
  /\ chip8.reg[15] = start.reg[15]
  /\ chip8.reg[15] \notin {0, 1}

(* C18: 8xy0, 8xy1, 8xy2, 8xy3 set register X to VY, VX|VY, VX&VY, VX^VY   *)
(* and change nothing else: no other register (VF included when X is not   *)
(* 0xF), nor I, PC, stack, memory, frame buffer or timers.                 *)
C18_LogicOpsFrame ==
  [][ (Executed(last') /\ Family(last'.opcode) = 8 /\ last'.opcode % 16 \in 0..3) =>
        LET x == get_x(last'.opcode)
            vx == chip8.reg[x]
            vy == chip8.reg[get_y(last'.opcode)]
            n == last'.opcode % 16
        IN /\ chip8'.reg[x] = CASE n = 0 -> vy
                                [] n = 1 -> BitOr(vx, vy, 8)
                                [] n = 2 -> BitAnd(vx, vy, 8)
                                [] n = 3 -> BitXor(vx, vy, 8)
           /\ \A r \in 0..(REG_MAX - 1) :
                r # x => chip8'.reg[r] = chip8.reg[r]
           /\ OnlyRegistersChange ]_vars

(* 8121 has run with V1 | V2 different from both operands and VF kept      *)
C18_Witness ==
  /\ done = << \H8121 >>
  /\ chip8.reg[1] = BitOr(start.reg[1], start.reg[2], 8)
  /\ chip8.reg[1] # start.reg[1]
  /\ chip8.reg[15] = start.reg[15]
  /\ chip8.reg[15] # 0

(* The Fxnn instruction with low byte nn                                   *)
IsMisc(opcode, nn) == Family(opcode) = 15 /\ opcode % 256 = nn

(* C19: for every X and every I with I + X inside memory, Fx55 copies      *)
(* V0..VX to memory[I..I+X] and Fx65 copies memory[I..I+X] to V0..VX, each *)
(* advancing I by exactly X + 1 and touching no register above X and no    *)
(* memory outside the range; a store followed by a load from the same      *)
(* region, with I restored, returns V0..VX to the values they had.         *)
C19_StoreLoadRoundTrip ==
  [][ /\ (Executed(last') /\ IsMisc(last'.opcode, \H55)
          /\ chip8.index_reg + get_x(last'.opcode) < MEM_MAX) =>
            LET x == get_x(last'.opcode)
                i == chip8.index_reg
            IN /\ chip8'.panic = ""
               /\ \A a \in 0..(MEM_MAX - 1) :
                    chip8'.memory[a] = IF a >= i /\ a <= i + x
                                       THEN chip8.reg[a - i]
                                       ELSE chip8.memory[a]
               /\ chip8'.index_reg = i + x + 1
               /\ chip8' = [chip8 EXCEPT !.memory = chip8'.memory,
                                         !.index_reg = chip8'.index_reg]
      /\ (Executed(last') /\ IsMisc(last'.opcode, \H65)
          /\ chip8.index_reg + get_x(last'.opcode) < MEM_MAX) =>
            LET x == get_x(last'.opcode)
                i == chip8.index_reg
            IN /\ chip8'.panic = ""
               /\ \A r \in 0..(REG_MAX - 1) :
                    chip8'.reg[r] = IF r <= x THEN chip8.memory[i + r]
                                    ELSE chip8.reg[r]
               /\ chip8'.index_reg = i + x + 1
               /\ chip8' = [chip8 EXCEPT !.reg = chip8'.reg,
                                         !.index_reg = chip8'.index_reg]
      /\ (Executed(last') /\ Len(done') = 6 /\ IsMisc(done'[2], \H55)
          /\ IsMisc(done'[6], \H65) /\ done'[5] = done'[1]
          /\ get_x(done'[6]) = get_x(done'[2])) =>
            \A r \in 0..get_x(done'[2]) : chip8'.reg[r] = start.reg[r] ]_vars

(* V0..VF were stored at 0xFF0..0xFFF, overwritten by a load of zeros and  *)
(* loaded back from 0xFF0                                                  *)
C19_Witness ==
  /\ done = << \HAFF0, \HFF55, \HA400, \HFF65, \HAFF0, \HFF65 >>
  /\ \A r \in 0..(REG_MAX - 1) : start.reg[r] # 0
  /\ chip8.reg = start.reg
  /\ chip8.memory[\HFFF] = start.reg[15]
  /\ chip8.index_reg = MEM_MAX

(* C20: for every value v of VX, Fx33 with I + 2 inside memory writes the  *)
(* hundreds, tens and ones decimal digits of v to memory[I], memory[I+1],  *)
(* memory[I+2] (each 0..9, 100*h + 10*t + o = v) and leaves I, all         *)
(* registers and all other memory unchanged.                               *)
C20_BcdDigits ==
  [][ (Executed(last') /\ IsMisc(last'.opcode, \H33)
       /\ chip8.index_reg + 2 < MEM_MAX) =>
        LET v == chip8.reg[get_x(last'.opcode)]
            i == chip8.index_reg
            h == chip8'.memory[i]
            t == chip8'.memory[i + 1]
            o == chip8'.memory[i + 2]
        IN /\ chip8'.panic = ""
           /\ h \in 0..9 /\ t \in 0..9 /\ o \in 0..9
           /\ 100 * h + 10 * t + o = v
           /\ chip8' = [chip8 EXCEPT !.memory =
                          [chip8.memory EXCEPT ![i] = h, ![i + 1] = t,
                                               ![i + 2] = o]] ]_vars

(* F333 has run with V3 = 157: 1, 5, 7 are stored from I = 0x300           *)
C20_Witness ==
  /\ done = << \HF333 >>
  /\ start.reg[3] = 157
  /\ start.index_reg = \H300
  /\ chip8.memory[\H300] = 1
  /\ chip8.memory[\H301] = 5
  /\ chip8.memory[\H302] = 7
  /\ chip8.index_reg = \H300

(* The canonical 5-byte glyphs of the hex digits 0..F (spec, section 6)    *)
CanonicalGlyphs ==
  << \HF0, \H90, \H90, \H90, \HF0,   \H20, \H60, \H20, \H20, \H70,
     \HF0, \H10, \HF0, \H80, \HF0,   \HF0, \H10, \HF0, \H10, \HF0,
     \H90, \H90, \HF0, \H10, \H10,   \HF0, \H80, \HF0, \H10, \HF0,
     \HF0, \H80, \HF0, \H90, \HF0,   \HF0, \H10, \H20, \H40, \H40,
     \HF0, \H90, \HF0, \H90, \HF0,   \HF0, \H90, \HF0, \H10, \HF0,
     \HF0, \H90, \HF0, \H90, \H90,   \HE0, \H90, \HE0, \H90, \HE0,
     \HF0, \H80, \H80, \H80, \HF0,   \HE0, \H90, \H90, \H90, \HE0,
     \HF0, \H80, \HF0, \H80, \HF0,   \HF0, \H80, \HF0, \H80, \H80 >>

(* C21: on the memory new() builds, for every digit d in 0..15 held in VX, *)
(* Fx29 sets I to 0x50 + 5*d and the five bytes at I are the canonical     *)
(* glyph of d, none of them zero, for A..F as for 0..9.                    *)
C21_FontGlyphs ==
  [][ (Executed(last') /\ IsMisc(last'.opcode, \H29)
       /\ chip8.memory = new.memory
       /\ chip8.reg[get_x(last'.opcode)] \in 0..15) =>
        LET d == chip8.reg[get_x(last'.opcode)]
        IN /\ chip8'.index_reg = START_OF_FONT + 5 * d
           /\ \A k \in 0..4 :
                /\ chip8'.memory[chip8'.index_reg + k] # 0
                /\ chip8'.memory[chip8'.index_reg + k] =
                     CanonicalGlyphs[5 * d + k + 1] ]_vars

(* The key-skip instructions                                               *)
IsKeySkip(opcode) == Family(opcode) = 14 /\ opcode % 256 \in {\H9E, \HA1}

(* C22: the state the host reported for key i is what get_key_state(i)     *)
(* returns and what the engine observes: with VX = i in 0..15, Ex9E adds   *)
(* an extra 2 to PC iff key i is pressed and ExA1 iff it is not pressed.   *)
C22_HostKeysObserved ==
  [][ (Executed(last') /\ IsKeySkip(last'.opcode)
       /\ chip8.reg[get_x(last'.opcode)] \in 0..(NUM_OF_KEYS - 1)) =>
        LET i == chip8.reg[get_x(last'.opcode)]
            pressed == host.keys[i] = 1
            skip == IF last'.opcode % 256 = \H9E THEN pressed ELSE ~pressed
        IN /\ get_key_state(chip8, i) = host.keys[i]
           /\ chip8'.program_counter =
                chip8.program_counter + IF skip THEN 2 ELSE 0 ]_vars

(* C23: no instruction executed through tick or handle_opcode changes the  *)
(* key states: the key array after the call is the key array before it.    *)
C23_EngineKeepsKeys ==
  [][ Executed(last') => chip8'.keys = chip8.keys ]_vars

(* a tick has executed the key-wait F50A and a later tick another word     *)
C23_Witness ==
  /\ last.call = "tick"
  /\ last.opcode = \H6A42
  /\ chip8.panic = ""
  /\ chip8.memory[PROGRAM_START] = \HF5
  /\ chip8.memory[PROGRAM_START + 1] = \H0A
  /\ chip8.program_counter = PROGRAM_START + 4
  /\ NoKeyPressed(chip8)

(* C24: a timer never goes below 0 and never drops by more than 1 per      *)
(* tick: a tick that does not execute Fx15 (resp. Fx18) leaves the delay   *)
(* (resp. sound) timer unchanged at 0 or exactly one lower.                *)
C24_TimersStepDown ==
  [][ (last'.call = "tick" /\ last'.opcode >= 0 /\ chip8'.panic = "") =>
        /\ chip8'.delay_timer \in 0..255
        /\ chip8'.sound_timer \in 0..255
        /\ ~IsMisc(last'.opcode, \H15) =>
             chip8'.delay_timer = Decremented(chip8.delay_timer)
        /\ ~IsMisc(last'.opcode, \H18) =>
             chip8'.sound_timer = Decremented(chip8.sound_timer) ]_vars

(* C25: 3xkk, 4xkk, 5xy0, 9xy0 add 2 to the program counter exactly when   *)
(* VX = KK, VX # KK, VX = VY, VX # VY respectively, leave it unchanged     *)
(* otherwise, and modify no register or other state.                       *)
C25_SkipsAddTwo ==
  [][ (Executed(last')
       /\ \/ Family(last'.opcode) \in {3, 4}
          \/ Family(last'.opcode) \in {5, 9} /\ last'.opcode % 16 = 0) =>
        LET op == last'.opcode
            vx == chip8.reg[get_x(op)]
            vy == chip8.reg[get_y(op)]
            cond == CASE Family(op) = 3 -> vx = get_kk(op)
                      [] Family(op) = 4 -> vx # get_kk(op)
                      [] Family(op) = 5 -> vx = vy
                      [] Family(op) = 9 -> vx # vy
        IN chip8' = [chip8 EXCEPT !.program_counter =
                       chip8.program_counter + IF cond THEN 2 ELSE 0] ]_vars

(* 40FF has run with V0 = 200 and skipped; 30FF would not have             *)
C25_Witness ==
  /\ done = << \H40FF >>
  /\ start.reg[0] = 200
  /\ chip8.program_counter = start.program_counter + 2
  /\ chip8.reg = start.reg

(* C26: 00E0 sets every cell of the frame buffer to 0 whatever it held and *)
(* leaves registers (VF included), I, stack, memory, keys and timers       *)
(* unchanged.                                                              *)
C26_ClearDisplay ==
  [][ (Executed(last') /\ last'.opcode = \H00E0) =>
        /\ \A i \in 0..(FRAME_BUF_MAX - 1) : chip8'.frame_buffer[i] = 0
        /\ chip8' = [chip8 EXCEPT !.frame_buffer = chip8'.frame_buffer] ]_vars

(* 00E0 has cleared a frame buffer of ones, with a return address on the   *)
(* stack and both timers running                                           *)
C26_Witness ==
  /\ done = << \H2300, \HF015, \HF118, \H00E0 >>
  /\ \A i \in 0..(FRAME_BUF_MAX - 1) : start.frame_buffer[i] = 1
  /\ \A i \in 0..(FRAME_BUF_MAX - 1) : chip8.frame_buffer[i] = 0
  /\ Len(chip8.stack) = 1
  /\ chip8.delay_timer = start.reg[0] /\ chip8.delay_timer > 0
  /\ chip8.sound_timer = start.reg[1] /\ chip8.sound_timer > 0
  /\ chip8.reg[15] = start.reg[15] /\ chip8.reg[15] # 0

(* C27: after Cxkk, whatever byte the random source produces, register X   *)
(* has no bit set outside KK (mask 0x0F gives VX <= 15, mask 0x00 gives    *)
(* VX = 0), and no other register, nor I, PC, memory or frame buffer, is   *)
(* changed.                                                                *)
C27_RandomMasked ==
  [][ (Executed(last') /\ Family(last'.opcode) = 12) =>
        LET x == get_x(last'.opcode)
            kk == get_kk(last'.opcode)
        IN /\ BitAnd(chip8'.reg[x], 255 - kk, 8) = 0
           /\ kk = \H0F => chip8'.reg[x] <= 15
           /\ kk = 0 => chip8'.reg[x] = 0
           /\ chip8' = [chip8 EXCEPT !.reg[x] = chip8'.reg[x]] ]_vars

(* C50F has run on the random byte 0x5A: V5 = 0x0A                         *)
C27_Witness ==
  /\ done = << \HC50F >>
  /\ start.reg[5] # \H0A
  /\ chip8.reg[5] = \H0A

(* The instructions that write the index register                          *)
WritesIndex(opcode) ==
  \/ Family(opcode) = 10
  \/ Family(opcode) = 15 /\ (opcode % 256) \in {\H1E, \H29, \H55, \H65}

(* C28: through Annn, Fx1E, Fx29, Fx55 and Fx65 the index register stays   *)
(* within 0..0xFFF and its 16-bit representation never overflows.          *)
C28_IndexTwelveBits ==
  [][ (Executed(last') /\ WritesIndex(last'.opcode)
       /\ chip8.index_reg <= \HFFF) =>
        /\ chip8'.index_reg \in 0..\HFFF
        /\ chip8'.panic # "overflow" ]_vars

(* C29: in every state reached by ticking a loaded program the program     *)
(* counter addresses two bytes inside memory (PC <= 0xFFE), so the fetch   *)
(* of tick never reads outside memory.                                     *)
C29_FetchInsideMemory ==
  [][ last'.call = "tick" =>
        /\ chip8'.program_counter <= \HFFE
        /\ last'.opcode >= 0 ]_vars

(* C30: Ex9E and ExA1 never index the key array out of range: for every    *)
(* value 0..255 of VX they complete, skipping or not skipping.             *)
C30_KeySkipCompletes ==
  [][ (Executed(last') /\ IsKeySkip(last'.opcode)) =>
        /\ chip8'.panic = ""
        /\ chip8'.program_counter \in
             {chip8.program_counter, chip8.program_counter + 2} ]_vars

(* C31: within one tick the timer decrement comes after the instruction:   *)
(* a tick executing Fx15 with VX = v ends with delay timer v - 1 (0 for    *)
(* v = 0), and a tick executing Fx07 loads into VX the delay timer as it   *)
(* was before that tick's decrement.                                       *)
C31_DecrementAfterInstruction ==
  [][ (last'.call = "tick" /\ last'.opcode >= 0
       /\ (IsMisc(last'.opcode, \H15) \/ IsMisc(last'.opcode, \H07))) =>
        LET x == get_x(last'.opcode)
        IN /\ chip8'.panic = ""
           /\ IsMisc(last'.opcode, \H15) =>
                chip8'.delay_timer = Decremented(chip8.reg[x])
           /\ IsMisc(last'.opcode, \H07) =>
                /\ chip8'.reg[x] = chip8.delay_timer
                /\ chip8'.delay_timer = Decremented(chip8.delay_timer) ]_vars

(* the tick of FB07 has loaded VB = 2, the delay timer FA15 left from      *)
(* VA = 3, and then decremented the timer to 1                             *)
C31_Witness ==
  /\ last.call = "tick"
  /\ last.opcode = \HFB07
  /\ chip8.reg[10] = 3
  /\ chip8.reg[11] = 2
  /\ chip8.delay_timer = 1

(* C32: for any prior frame buffer, executing the same Dxyn twice with the *)
(* same I, sprite bytes, VX and VY restores every cell to its value before *)
(* the first draw, and every cell stays 0 or 1 after each draw.            *)
C32_DrawInvolution ==
  [][ /\ (Executed(last') /\ IsDraw(last'.opcode)) =>
            \A i \in 0..(FRAME_BUF_MAX - 1) : chip8'.frame_buffer[i] \in {0, 1}
      /\ SecondDraw =>
            /\ chip8'.panic = ""
            /\ chip8'.frame_buffer = start.frame_buffer ]_vars

(* D122 has run twice at (2, 2) over a frame buffer in which (2, 2), under *)
(* a set bit of the sprite, was set and (3, 2) was clear                   *)
C32_Witness ==
  /\ done = << \HD122, \HD122 >>
  /\ start.reg[1] = 2 /\ start.reg[2] = 2
  /\ SpriteBit(start, \HD122, 2, 2) = 1
  /\ SpriteBit(start, \HD122, 3, 2) = 1
  /\ start.frame_buffer[PixelIndex(2, 2)] = 1
  /\ start.frame_buffer[PixelIndex(3, 2)] = 0
  /\ chip8.frame_buffer = start.frame_buffer
  /\ chip8.panic = ""

(* The instruction of the last call failed: an unrecognised word, a return *)
(* on an empty stack, or an index-relative access past the end of memory   *)
Failed(l, c) ==
  /\ Executed(l)
  /\ \/ c.panic \in {"unhandled_opcode", "unwrap_none"}
     \/ c.panic = "index_out_of_bounds" /\ IsIndexRelative(l.opcode)

(* C33: an instruction that fails has no partial effect: registers, index  *)
(* register, stack, memory and frame buffer are as they were before the    *)
(* failing instruction was dispatched.                                     *)
C33_FailureHasNoEffect ==
  [][ Failed(last', chip8') =>
        /\ chip8'.reg = chip8.reg
        /\ chip8'.index_reg = chip8.index_reg
        /\ chip8'.stack = chip8.stack
        /\ chip8'.memory = chip8.memory
        /\ chip8'.frame_buffer = chip8.frame_buffer ]_vars

====
